---- MODULE Spec2Model ----
(***************************************************************************)
(* The cleaning and association pipeline of src/src/utils/clean_data.py:   *)
(* the concatenation of the radiation files, the three cleaners,           *)
(* geolocate_radiation_data, associate_weather_to_radiation and the final  *)
(* write, as clean_all_data composes them; and of the data acquisition:    *)
(* download_file_from_url, concatenate_radiation_tables_in_db and          *)
(* get_radiation_data.                                                     *)
(*                                                                         *)
(* A table (pandas DataFrame) is a sequence of records, one per row, in    *)
(* row order.  A missing number is NaN, a missing string is NaNName, a     *)
(* missing timestamp is NaT.                                               *)
(***************************************************************************)
EXTENDS Integers, Sequences, FiniteSets, TLC

VARIABLES
    pc,             \* the statement that runs next
    raw_dir,        \* the files of the raw data directory
    cleaned_dir,    \* data.csv in the cleaned data directory
    completed,      \* the steps of clean_all_data that have returned, in order
    radiation_raw,  \* the concatenated radiation table
    weather_raw,    \* the weather table as read from the CSV file
    mun_raw,        \* the gazetteer as read from the CSV file
    mun_df,         \* the cleaned gazetteer
    radiation_df,   \* the cleaned radiation table
    weather_df,     \* the cleaned weather table
    radiation_geo,  \* the geolocated radiation table
    final_df,       \* the associated table
    geo_report,     \* the kept/total figures geolocate_radiation_data prints
    raised,         \* the exception that ended the run, "" when none
    dl,             \* download_file_from_url: the response and the files
    db,             \* the tables of the SQLite database
    pw              \* get_radiation_data: the pair and step, the CSV files

vars == <<pc, raw_dir, cleaned_dir, completed, radiation_raw, weather_raw,
          mun_raw, mun_df, radiation_df, weather_df, radiation_geo,
          final_df, geo_report, raised, dl, db, pw>>

\* the state of the cleaning pipeline, pc and raised apart
pipeline == <<raw_dir, cleaned_dir, completed, radiation_raw, weather_raw,
              mun_raw, mun_df, radiation_df, weather_df, radiation_geo,
              final_df, geo_report>>

\* the state of the data acquisition
acquisition == <<dl, db, pw>>

----------------------------------------------------------------------------
(* Bounds of the model *)

\* rows of the gazetteer
MaxMun == 2
\* rows of the cleaned (or geolocated) radiation table
MaxRad == 2
\* rows of the cleaned weather table
MaxWeather == 2
\* files of the raw data directory
MaxFiles == 2
\* metres of meridian arc between two neighbouring sample latitudes
GridStepM == 25000
\* ticks of the clock in one calendar day (tick 0 is midnight)
TicksPerDay == 2

----------------------------------------------------------------------------
(* Missing values *)

NaN == -1
NaT == -1
NaNName == <<"NaN">>

----------------------------------------------------------------------------
(* Municipality-name normalisation.  A name is a sequence of characters;   *)
(* "e_acute" and "E_acute" stand for the accented letters.                 *)

UpperChar(c) ==
    CASE c = "a" -> "A"
      [] c = "b" -> "B"
      [] c = "l" -> "L"
      [] c = "e_acute" -> "E_acute"
      [] OTHER -> c

UnidecodeChar(c) ==
    CASE c = "E_acute" -> "E"
      [] c = "e_acute" -> "e"
      [] OTHER -> c

\* Series.str.upper()
StrUpper(s) == [i \in 1..Len(s) |-> UpperChar(s[i])]

\* unidecode.unidecode
Unidecode(s) == [i \in 1..Len(s) |-> UnidecodeChar(s[i])]

\* Series.str.replace(r"^L'", "", regex=True): one leading L' is removed
StripLeadingL(s) ==
    IF Len(s) >= 2 /\ s[1] = "L" /\ s[2] = "'"
    THEN SubSeq(s, 3, Len(s))
    ELSE s

NormalizeName(s) == StripLeadingL(Unidecode(StrUpper(s)))

----------------------------------------------------------------------------
(* Table helpers *)

\* the rows of t at the positions in idx, in row order
RECURSIVE RowsAt(_, _, _)
RowsAt(t, idx, i) ==
    IF i > Len(t) THEN <<>>
    ELSE IF i \in idx THEN <<t[i]>> \o RowsAt(t, idx, i + 1)
    ELSE RowsAt(t, idx, i + 1)

Select(t, idx) == RowsAt(t, idx, 1)

\* row i of a table is labelled i (the index of ignore_index=True)
Labelled(t) == [i \in 1..Len(t) |-> t[i] @@ [row |-> i]]

\* the permutations of 1..n
Perms(n) == {f \in [1..n -> 1..n] : \A i, j \in 1..n : i # j => f[i] # f[j]}

----------------------------------------------------------------------------
(* clean_municipality_data *)

\* Takes the fallback whenever there is one
C24_Mutant_FillNa(primary, fallback) ==
    IF fallback = NaN THEN primary ELSE fallback

\* Series.fillna(other): the fallback where the primary is missing
FillNa(primary, fallback) == IF primary = NaN THEN fallback ELSE primary

\* lines 146-161: the cleaned name and the coalesced coordinates of one row.
\* index is the DataFrame's index label, which sorting and filtering keep.
MunWithCleanedColumns(t) ==
    [i \in 1..Len(t) |->
        [index      |-> i,
         nom_standard_majuscule |-> t[i].nom_standard_majuscule,
         population       |-> t[i].population,
         latitude_centre  |-> t[i].latitude_centre,
         latitude_mairie  |-> t[i].latitude_mairie,
         longitude_centre |-> t[i].longitude_centre,
         longitude_mairie |-> t[i].longitude_mairie,
         nom        |-> NormalizeName(t[i].nom_standard_majuscule),
         latitude   |-> FillNa(t[i].latitude_centre, t[i].latitude_mairie),
         longitude  |-> FillNa(t[i].longitude_centre, t[i].longitude_mairie)]]

\* Leaves the gazetteer in file order
C8_Mutant_SortValuesPopulationDesc(t) == {t}

\* sort_values(population, ascending=False): NaN last; the default sort
\* (quicksort) is not stable, so rows of equal population come in any order
SortValuesPopulationDesc(t) ==
    {[i \in 1..Len(t) |-> t[p[i]]] : p \in
        {q \in Perms(Len(t)) :
            \A i, j \in 1..Len(t) :
                i < j =>
                    \/ t[q[j]].population = NaN
                    \/ /\ t[q[i]].population # NaN
                       /\ t[q[i]].population >= t[q[j]].population}}

\* Keeps every row of a name
C3_Mutant_DropDuplicateNames(t) == t

\* lines 165-166: drop_duplicates(subset=nom, keep="first")
DropDuplicateNames(t) ==
    Select(t, {i \in 1..Len(t) : \A j \in 1..(i - 1) : t[j].nom # t[i].nom})

\* line 170: mun_df[required_columns]
MunRequiredColumns(t) ==
    [i \in 1..Len(t) |->
        [index |-> t[i].index, nom |-> t[i].nom,
         latitude |-> t[i].latitude, longitude |-> t[i].longitude]]

\* unidecode.unidecode(NaN) raises AttributeError: a missing primary name
\* ends clean_municipality_data at line 149
MunNameMissing(t) == \E i \in 1..Len(t) : t[i].nom_standard_majuscule = NaNName

\* the tables clean_municipality_data may return for the gazetteer t
clean_municipality_data(t) ==
    {MunRequiredColumns(DropDuplicateNames(s)) :
        s \in SortValuesPopulationDesc(MunWithCleanedColumns(t))}

----------------------------------------------------------------------------
(* concatenate_csv_files, as concatenate_radiation_data calls it *)

\* A file of the raw directory is [name, readable, rows]: name is the file
\* name split at "_", readable tells whether pd.read_csv can parse the file,
\* rows is the table it holds.

\* glob of RADIATION_DATA_FILENAME_PATTERN, "asnr_*_radiation_data_*.csv",
\* for names whose medium has no "_"
MatchesPattern(name) ==
    /\ Len(name) = 5
    /\ name[1] = "asnr" /\ name[3] = "radiation" /\ name[4] = "data"
    /\ name[5] \in {"2020.csv", "2021.csv"}

\* line 157: the files glob.glob returns, in the order of the directory
MatchingFiles(files) ==
    Select(files, {i \in 1..Len(files) : MatchesPattern(files[i].name)})

\* the tags of RADIATION_DATA_CONFIG["medium"]
MediumMapping == [soil |-> "Sol", water |-> "Eau"]

\* Tags with the token of the file name, whatever the mapping
C23_Mutant_MediumOf(name) == name[2]

\* lines 162, 166-169: the medium is the second "_" token of the file name,
\* replaced by its tag when the mapping has one
MediumOf(name) ==
    IF name[2] \in DOMAIN MediumMapping THEN MediumMapping[name[2]] ELSE name[2]

\* lines 164-170: the table of one file with its medium column
Tagged(file) ==
    [i \in 1..Len(file.rows) |->
        [file.rows[i] EXCEPT !.Milieu = MediumOf(file.name)]]

RECURSIVE ConcatRows(_)
ConcatRows(files) ==
    IF files = <<>> THEN <<>>
    ELSE Tagged(Head(files)) \o ConcatRows(Tail(files))

\* line 172: pd.concat(dfs, ignore_index=True)
concatenate_csv_files(files) == Labelled(ConcatRows(MatchingFiles(files)))

\* line 164: pd.read_csv raises on a file it cannot parse
ConcatUnreadable(files) ==
    \E i \in 1..Len(MatchingFiles(files)) : ~MatchingFiles(files)[i].readable

\* line 172: pd.concat of an empty list raises ValueError
ConcatNothing(files) == MatchingFiles(files) = <<>>

----------------------------------------------------------------------------
(* clean_radiation_data *)

\* A row of the concatenated radiation table has the columns of
\* RADIATION_DATA_CONFIG under these names:
\*   date_start   "Date de debut de prelevement"   (a text, <<day, tick>>)
\*   date_end     "Date de fin de prelevement"
\*   Resultat, Incertitude ("Incertitude absolue"), Unite, Commune, Espece,
\*   Nature, Radion, Milieu ("Milieu de collecte"),
\* a column Station that is not required, and the index label row.

NaNText == <<NaN, NaN>>

\* the missing value of each column (read_csv reads an empty cell as NaN)
RadiationMissing ==
    [date_start |-> NaNText, date_end |-> NaNText, Resultat |-> NaN,
     Incertitude |-> NaN, Unite |-> "", Commune |-> NaNName, Espece |-> "",
     Nature |-> "", Radion |-> "", Milieu |-> "", Station |-> ""]

RadiationRequiredColumns ==
    {"date_start", "date_end", "Resultat", "Incertitude", "Unite", "Commune",
     "Espece", "Nature", "Radion", "Milieu"}

\* Leaves the result out of the columns that must be present
C14_Mutant_RadiationDropNa(t) ==
    Select(t, {i \in 1..Len(t) :
        \A c \in {"Commune", "date_start", "Unite", "Radion", "Milieu"} :
            t[i][c] # RadiationMissing[c]})

\* line 112: dropna(subset=dropna_columns)
RadiationDropNa(t) ==
    Select(t, {i \in 1..Len(t) :
        \A c \in {"Commune", "date_start", "Resultat", "Unite", "Radion",
                  "Milieu"} :
            t[i][c] # RadiationMissing[c]})

\* Leaves the medium out of the key
C13_Mutant_RadiationDuplicateKey(r) ==
    <<r.date_start, r.date_end, r.Commune, r.Radion>>

\* the drop_duplicates_columns of RADIATION_DATA_CONFIG
RadiationDuplicateKey(r) ==
    <<r.date_start, r.date_end, r.Commune, r.Radion, r.Milieu>>

\* lines 115-118: drop_duplicates(subset=..., keep="first"), on the names
\* as they were read
RadiationDropDuplicates(t) ==
    Select(t, {i \in 1..Len(t) :
        \A j \in 1..(i - 1) :
            RadiationDuplicateKey(t[j]) # RadiationDuplicateKey(t[i])})

\* lines 121-126: the municipality names are normalised
RadiationNormalize(t) ==
    [i \in 1..Len(t) |-> [t[i] EXCEPT !.Commune = NormalizeName(@)]]

\* line 129: radiation_df[required_columns]
RadiationProject(t) ==
    [i \in 1..Len(t) |->
        [c \in RadiationRequiredColumns \cup {"row"} |-> t[i][c]]]

\* Removes the duplicates first and the incomplete rows after
C25_Mutant_clean_radiation_data(t) ==
    RadiationProject(RadiationNormalize(RadiationDropNa(RadiationDropDuplicates(t))))

\* the table clean_radiation_data returns
clean_radiation_data(t) ==
    RadiationProject(RadiationNormalize(RadiationDropDuplicates(RadiationDropNa(t))))

\* line 122: a Commune column without any name has the float dtype, which
\* has no .str accessor: AttributeError
RadiationNameless(t) ==
    Len(t) > 0 /\ \A i \in 1..Len(t) : t[i].Commune = NaNName

----------------------------------------------------------------------------
(* geolocate_radiation_data *)

\* A row of the cleaned radiation table has at least [row, Commune,
\* date_start], where row names the row (it is the index label, not a column:
\* it lets a result row be traced to its origin) and date_start is the text
\* of the sampling start date, <<day, tick>>, day 0 standing for a text that
\* is no date.  Every other column of the row is carried along.

\* pd.to_datetime(text, errors="coerce"): a timestamp in ticks, or NaT
ToDatetime(text) ==
    IF text[1] >= 1 THEN text[1] * TicksPerDay + text[2] ELSE NaT

\* the calendar day of a timestamp
CalendarDay(ts) == ts \div TicksPerDay

\* the rows a left merge makes of the radiation row r: one per municipality
\* row of that name in the order of mun, or one with missing municipality
\* columns when there is none
MergeLeftRow(r, mun) ==
    LET m == Select(mun, {j \in 1..Len(mun) : mun[j].nom = r.Commune})
    IN  IF m = <<>>
        THEN <<r @@ [nom |-> NaNName, latitude |-> NaN, longitude |-> NaN]>>
        ELSE [k \in 1..Len(m) |->
                r @@ [nom |-> m[k].nom, latitude |-> m[k].latitude,
                      longitude |-> m[k].longitude]]

\* merge_dataframes(how="left"): left row order is kept
RECURSIVE MergeFrom(_, _, _)
MergeFrom(rad, mun, i) ==
    IF i > Len(rad) THEN <<>>
    ELSE MergeLeftRow(rad[i], mun) \o MergeFrom(rad, mun, i + 1)

merge_dataframes(rad, mun) == MergeFrom(rad, mun, 1)

\* Counts the rows that miss either coordinate
C10_Mutant_MissingLatitude(merged) ==
    Cardinality({i \in 1..Len(merged) :
        merged[i].latitude = NaN \/ merged[i].longitude = NaN})

\* line 207: merged_df[latitude].isna().sum()
MissingLatitude(merged) ==
    Cardinality({i \in 1..Len(merged) : merged[i].latitude = NaN})

\* Drops on a missing latitude alone
C9_Mutant_DropNaCoordinates(merged) ==
    Select(merged, {i \in 1..Len(merged) : merged[i].latitude # NaN})

\* line 211: dropna(subset=[latitude, longitude])
DropNaCoordinates(merged) ==
    Select(merged, {i \in 1..Len(merged) :
        merged[i].latitude # NaN /\ merged[i].longitude # NaN})

\* lines 214-217: the join column is dropped and the start date is parsed
DropKeyParseDate(merged) ==
    [i \in 1..Len(merged) |->
        [c \in DOMAIN merged[i] \ {"nom"} |->
            IF c = "date_start" THEN ToDatetime(merged[i].date_start)
            ELSE merged[i][c]]]

\* line 218: dropna(subset=[date_column])
DropNaDate(t) == Select(t, {i \in 1..Len(t) : t[i].date_start # NaT})

\* the table geolocate_radiation_data returns
geolocate_radiation_data(rad, mun) ==
    DropNaDate(DropKeyParseDate(DropNaCoordinates(merge_dataframes(rad, mun))))

\* the figures of line 220: kept = total - missing
GeolocateReport(rad, mun) ==
    LET merged == merge_dataframes(rad, mun)
    IN  [kept  |-> Len(merged) - MissingLatitude(merged),
         total |-> Len(merged)]

----------------------------------------------------------------------------
(* clean_weather_data *)

\* A row of the raw weather table: LAMBX and LAMBY in hectometres, DATE the
\* number read from the file (the day it encodes, 0 standing for digits that
\* are no calendar date), PRENEI, PRELIQ, and a column T the cleaning drops.

WeatherRequiredColumns == {"LAMBX", "LAMBY", "DATE", "PRENEI", "PRELIQ"}

\* line 243: weather_df[required_columns]
WeatherProject(t) ==
    [i \in 1..Len(t) |-> [c \in WeatherRequiredColumns |-> t[i][c]]]

\* the dropna_columns of WEATHER_DATA_CONFIG: PRENEI is not among them
WeatherDropNaColumns == {"LAMBX", "LAMBY", "DATE", "PRELIQ"}

\* line 246: dropna(subset=dropna_columns)
WeatherDropNa(t) ==
    Select(t, {i \in 1..Len(t) : \A c \in WeatherDropNaColumns : t[i][c] # NaN})

\* read_csv gives DATE the float dtype when a cell of the column is empty;
\* dropping rows does not change the dtype
DateIsFloat(t) == \E i \in 1..Len(t) : t[i].DATE = NaN

\* astype(str): the digits, followed by ".0" for a float
AsTypeStr(v, is_float) == [digits |-> v, point |-> is_float]

\* pd.to_datetime(text, format="%Y%m%d", errors="coerce"): midnight of the
\* day, or NaT when the text is not eight digits of a calendar date
ToDatetimeYmd(text) ==
    IF text.point \/ text.digits < 1 THEN NaT ELSE text.digits * TicksPerDay

\* lines 249-259, 262: Lambert hectometres to metres, then to WGS84; the
\* sample cells lie on the meridian of the radiation sites, where a
\* latitude counts grid steps of GridStepM northwards
ConvertLambertToWgs84(t) ==
    [i \in 1..Len(t) |->
        [DATE |-> t[i].DATE, PRENEI |-> t[i].PRENEI, PRELIQ |-> t[i].PRELIQ,
         latitude  |-> (t[i].LAMBY * 100) \div GridStepM,
         longitude |-> (t[i].LAMBX * 100) \div GridStepM]]

\* lines 265-270: DATE is parsed and the rows without a date are dropped
WeatherParseDate(t, is_float) ==
    LET parsed == [i \in 1..Len(t) |->
                     [t[i] EXCEPT !.DATE = ToDatetimeYmd(AsTypeStr(@, is_float))]]
    IN  Select(parsed, {i \in 1..Len(parsed) : parsed[i].DATE # NaT})

\* the table clean_weather_data returns
clean_weather_data(t) ==
    WeatherParseDate(ConvertLambertToWgs84(WeatherDropNa(WeatherProject(t))),
                     DateIsFloat(t))

----------------------------------------------------------------------------
(* associate_weather_to_radiation *)

\* line 64: the bound clean_all_data passes
max_distance_m == 50000

\* BallTree(metric="haversine") distance times R, in metres.  The sample
\* sites lie on one meridian, where the great-circle distance is the arc
\* between the two latitudes; a latitude counts grid steps of GridStepM.
HaversineM(a, b) ==
    GridStepM * (IF a.latitude >= b.latitude
                 THEN a.latitude - b.latitude
                 ELSE b.latitude - a.latitude)

\* Takes the groups by descending key
C19_Mutant_SortedSeq(S) ==
    CHOOSE f \in [1..Cardinality(S) -> S] :
        \A i, j \in 1..Cardinality(S) : i < j => f[i] > f[j]

\* the elements of a finite set of integers, ascending (groupby sorts keys)
RECURSIVE SortedSeq(_)
SortedSeq(S) ==
    IF S = {} THEN <<>>
    ELSE LET m == CHOOSE x \in S : \A y \in S : x <= y
         IN  <<m>> \o SortedSeq(S \ {m})

\* Groups whatever weather row shares the calendar day of the key
C2_Mutant_WeatherOfDay(weather, day) ==
    Select(weather, {j \in 1..Len(weather) :
        CalendarDay(weather[j].DATE) = CalendarDay(day)})

\* Falls back on every weather row when the day has none
C7_Mutant_WeatherOfDay(weather, day) ==
    IF \E j \in 1..Len(weather) : weather[j].DATE = day
    THEN Select(weather, {j \in 1..Len(weather) : weather[j].DATE = day})
    ELSE weather

\* lines 317-319: weather_by_date[day], the group of weather_df.groupby
\* for the key day (a key is in the dictionary when its group has a row)
WeatherOfDay(weather, day) ==
    Select(weather, {j \in 1..Len(weather) : weather[j].DATE = day})

\* Answers with the first point of the day, whatever its distance
C4_Mutant_NearestIndex(r, subset_weather) == 1

\* tree.query(k=1): the position in subset_weather of the nearest point.
\* A tree of at most leaf_size points is one leaf, scanned in row order,
\* and a candidate is replaced only by a strictly nearer point.
NearestIndex(r, subset_weather) ==
    CHOOSE k \in 1..Len(subset_weather) :
        /\ \A j \in 1..Len(subset_weather) :
              HaversineM(r, subset_weather[k]) <= HaversineM(r, subset_weather[j])
        /\ \A j \in 1..(k - 1) :
              HaversineM(r, subset_weather[j]) > HaversineM(r, subset_weather[k])

\* Compares strictly
C1_Mutant_WithinMaxDistance(dist_m) == dist_m < max_distance_m

\* lines 348-349: mask = dist_m <= max_distance_m
WithinMaxDistance(dist_m) == dist_m <= max_distance_m

\* Gives the result row the coordinates of the weather point
C21_Mutant_AssociatedRow(r, subset_weather) ==
    LET w == subset_weather[NearestIndex(r, subset_weather)]
    IN  [c \in DOMAIN r |->
            IF c = "latitude" THEN w.latitude
            ELSE IF c = "longitude" THEN w.longitude
            ELSE r[c]]
        @@ [DATE_METEO |-> w.DATE, PRENEI |-> w.PRENEI, PRELIQ |-> w.PRELIQ,
            DISTANCE_RADIATION_WEATHER_M |-> HaversineM(r, w)]

\* lines 351-362: the result row of the radiation row r of a day
AssociatedRow(r, subset_weather) ==
    LET w == subset_weather[NearestIndex(r, subset_weather)]
    IN  r @@ [DATE_METEO |-> w.DATE, PRENEI |-> w.PRENEI, PRELIQ |-> w.PRELIQ,
              DISTANCE_RADIATION_WEATHER_M |-> HaversineM(r, w)]

\* lines 327-362: the result rows of one group of radiation_df.groupby
RowsOfDay(rad, weather, day) ==
    LET subset_asnr    == Select(rad, {i \in 1..Len(rad) : rad[i].date_start = day})
        subset_weather == WeatherOfDay(weather, day)
        valid_idx      == {i \in 1..Len(subset_asnr) :
                             WithinMaxDistance(
                                HaversineM(subset_asnr[i],
                                    subset_weather[NearestIndex(subset_asnr[i],
                                                                subset_weather)]))}
        kept           == Select(subset_asnr, valid_idx)
    IN  [i \in 1..Len(kept) |-> AssociatedRow(kept[i], subset_weather)]

\* line 324: the group keys of radiation_df found in weather_by_date
DayInWeather(weather, day) == WeatherOfDay(weather, day) # <<>>

\* lines 322-362: the loop over the groups of radiation_df, keys ascending
RECURSIVE ResultRows(_, _, _)
ResultRows(rad, weather, days) ==
    IF days = <<>> THEN <<>>
    ELSE (IF DayInWeather(weather, Head(days))
          THEN RowsOfDay(rad, weather, Head(days))
          ELSE <<>>)
         \o ResultRows(rad, weather, Tail(days))

\* result_df of line 364
associate_weather_to_radiation(rad, weather) ==
    ResultRows(rad, weather,
               SortedSeq({rad[i].date_start : i \in 1..Len(rad)}))

\* line 366 divides by len(radiation_df): ZeroDivisionError on an empty table
AssociateRaises(rad) == Len(rad) = 0

----------------------------------------------------------------------------
(* Sample inputs *)

\* every table of at most n rows drawn from rows
Tables(rows, n) == UNION {[1..k -> rows] : k \in 0..n}

\* raw gazetteer names: "a" and "L'A" share the cleaned name "A"
RawNames == {<<"a">>, <<"L", "'", "A">>, <<"e_acute">>}

\* primary and fallback coordinates of a gazetteer row
MunCoordinates ==
    {[latitude_centre |-> 1,   latitude_mairie |-> 3,
      longitude_centre |-> 0,  longitude_mairie |-> NaN],
     [latitude_centre |-> NaN, latitude_mairie |-> 0,
      longitude_centre |-> NaN, longitude_mairie |-> 0],
     [latitude_centre |-> 1,   latitude_mairie |-> NaN,
      longitude_centre |-> NaN, longitude_mairie |-> NaN],
     [latitude_centre |-> NaN, latitude_mairie |-> NaN,
      longitude_centre |-> 0,  longitude_mairie |-> NaN]}

MunRow(name, population, c) ==
    [nom_standard_majuscule |-> name, population |-> population,
     latitude_centre |-> c.latitude_centre,
     latitude_mairie |-> c.latitude_mairie,
     longitude_centre |-> c.longitude_centre,
     longitude_mairie |-> c.longitude_mairie]

\* gazetteer rows, a missing name and a missing population included
MunRows ==
    {MunRow(n, p, c) : n \in RawNames \cup {NaNName}, p \in {NaN, 1, 2},
                       c \in MunCoordinates}

\* gazetteer rows of the whole pipeline: named, two of the names of one
\* cleaned name, with both coordinates or the latitude alone
PipelineMunRows ==
    {MunRow(n, p, c) : n \in {<<"a">>, <<"L", "'", "A">>, <<"b">>}, p \in {1, 2},
                       c \in {d \in MunCoordinates : d.latitude_centre # NaN}}

\* texts of a sampling start date: midnight and later on day 1, day 2, no date
DateTexts == {<<1, 0>>, <<1, 1>>, <<2, 0>>, <<0, 0>>}

\* cleaned radiation tables: normalised names, row i labelled i
RadiationTables(names, texts) ==
    {[i \in 1..Len(t) |->
        [row |-> i, Commune |-> t[i][1], date_start |-> t[i][2]]] :
        t \in Tables(names \X texts, MaxRad)}

\* geolocated radiation tables: parsed dates, coordinates on the meridian
RadiationGeoTables ==
    {[i \in 1..Len(t) |->
        [row |-> i, Commune |-> <<"A">>,
         date_start |-> ToDatetime(t[i][1]),
         latitude |-> t[i][2], longitude |-> 0]] :
        t \in Tables((DateTexts \ {<<0, 0>>}) \X {0, 1}, MaxRad)}

\* one observation per grid cell and day, as clean_weather_data leaves it:
\* the date at midnight, PRELIQ present, PRENEI possibly missing
WeatherRow(day, lat) ==
    [DATE |-> day * TicksPerDay, latitude |-> lat, longitude |-> 0,
     PRENEI |-> IF lat = 0 THEN NaN ELSE day,
     PRELIQ |-> 10 * day + lat]

WeatherRows == {WeatherRow(d, l) : d \in {1, 2}, l \in {0, 2, 3}}

WeatherTables == Tables(WeatherRows, MaxWeather)

\* the weather table of the pipeline runs
PipelineWeather ==
    <<WeatherRow(1, 3), WeatherRow(1, 0), WeatherRow(1, 2), WeatherRow(2, 3)>>

\* a row of a radiation file
RawRadiationRow(commune, milieu, resultat, date) ==
    [date_start |-> date, date_end |-> NaNText, Resultat |-> resultat,
     Incertitude |-> NaN, Unite |-> "Bq/kg", Commune |-> commune,
     Espece |-> "", Nature |-> "Terre", Radion |-> "Cs-137", Milieu |-> milieu,
     Station |-> "S1"]

\* names as the radiation files spell them
RawCommunes == {<<"a">>, <<"L", "'", "A">>, <<"l", "'", "L", "'", "a">>}

\* radiation rows: the two media, a missing name, a missing result, a
\* missing start date
RawRadiationRows ==
    {RawRadiationRow(c, m, r, d) :
        c \in RawCommunes \cup {NaNName}, m \in {"Sol", "Eau"},
        r \in {5, 7, NaN}, d \in {<<1, 0>>, NaNText}}

RawRadiationTables == {Labelled(t) : t \in Tables(RawRadiationRows, MaxRad)}

\* the hectometre of the Lambert grid at latitude step lat
LambertOf(lat) == (lat * GridStepM + 99) \div 100

\* a row of the raw weather file
RawWeatherRow(date, lat, prenei, preliq) ==
    [LAMBX |-> 0, LAMBY |-> IF lat = NaN THEN NaN ELSE LambertOf(lat),
     DATE |-> date, PRENEI |-> prenei, PRELIQ |-> preliq, T |-> 0]

\* raw weather rows: a date, digits that are no date or no date at all, a
\* missing cell, missing snowfall, missing rainfall
RawWeatherRows ==
    {RawWeatherRow(d, l, n, q) :
        d \in {1, 0, NaN}, l \in {2, NaN}, n \in {1, NaN}, q \in {3, NaN}}

RawWeatherTables == Tables(RawWeatherRows, MaxWeather)

\* the raw weather file of the pipeline runs: it cleans to PipelineWeather
PipelineWeatherRaw ==
    [i \in 1..Len(PipelineWeather) |->
        RawWeatherRow(CalendarDay(PipelineWeather[i].DATE),
                      PipelineWeather[i].latitude,
                      PipelineWeather[i].PRENEI, PipelineWeather[i].PRELIQ)]

\* names of files of the raw directory: two media of the mapping, one that
\* is not in it, and a file the pattern does not match
FileNames ==
    {<<"asnr", "soil", "radiation", "data", "2020.csv">>,
     <<"asnr", "water", "radiation", "data", "2021.csv">>,
     <<"asnr", "air", "radiation", "data", "2020.csv">>,
     <<"villedereve", "municipality", "data.csv">>}

\* a row of a radiation file, before the medium column is added
FileRow(commune, resultat) == RawRadiationRow(commune, "", resultat, <<1, 0>>)

\* files: empty, of one row, of one row without a name, of one row that has
\* a medium of its own, or unreadable
RadiationFiles ==
    {[name |-> n, readable |-> TRUE, rows |-> r] :
        n \in FileNames,
        r \in {<<>>, <<FileRow(<<"a">>, 5)>>, <<FileRow(NaNName, 7)>>,
                <<RawRadiationRow(<<"a">>, "Eau", 5, <<1, 0>>)>>}}
    \cup {[name |-> n, readable |-> FALSE, rows |-> <<>>] : n \in FileNames}

\* a file that read_csv cannot parse
Unreadable == [readable |-> FALSE, rows |-> <<>>]

\* no raw directory is read, no file is in the cleaned directory
NoDir == [radiation |-> <<>>, municipality |-> Unreadable, weather |-> Unreadable]

\* data.csv: whether it exists, whether this run wrote it, its header line
\* and its rows
NoFile == [exists |-> FALSE, fresh |-> FALSE, header |-> {}, rows |-> <<>>]

\* the data.csv an earlier run left
StaleFile == [exists |-> TRUE, fresh |-> FALSE, header |-> {}, rows |-> <<>>]

NoReport == [kept |-> NaN, total |-> NaN]

\* nothing is downloaded, the database has no table, no browser runs
NoDownload == [file |-> <<>>]

NoDb == <<>>

NoGet == [pair |-> 0]

----------------------------------------------------------------------------
(* The steps of clean_all_data *)

\* Swallows the exception and goes on to the write of line 69
C17_Mutant_Propagate(exception) == "write"

\* clean_all_data has no try: an exception raised by a step ends the run
Propagate(exception) == "raised"

\* line 44.  The assignments of lines 146-161 add the cleaned columns to the
\* caller's table; the sort of line 165 makes the new one.
CleanMunicipalityData ==
    /\ pc = "clean_municipality"
    /\ UNCHANGED acquisition
    /\ IF MunNameMissing(mun_raw)
       THEN /\ pc' = Propagate("AttributeError")
            /\ raised' = "AttributeError"
            /\ UNCHANGED <<mun_raw, mun_df, completed>>
       ELSE /\ mun_df' \in clean_municipality_data(mun_raw)
            /\ mun_raw' = MunWithCleanedColumns(mun_raw)
            /\ pc' = "clean_weather"
            /\ completed' = Append(completed, "clean_municipality_data")
            /\ UNCHANGED raised
    /\ UNCHANGED <<raw_dir, cleaned_dir, radiation_raw, weather_raw,
                   radiation_df, weather_df, radiation_geo, final_df,
                   geo_report>>

\* Leaves the files of the directory where they are
C26_Mutant_delete_files_in_directory(dir) == dir

\* utils.py 267-282, the definition in force: the directory is made if need
\* be and every file in it is removed
delete_files_in_directory(dir) == NoFile

\* line 23
DeleteFilesInDirectory ==
    /\ pc = "delete_files"
    /\ UNCHANGED acquisition
    /\ cleaned_dir' = delete_files_in_directory(cleaned_dir)
    /\ pc' = "concatenate"
    /\ completed' = Append(completed, "delete_files_in_directory")
    /\ UNCHANGED <<raw_dir, radiation_raw, weather_raw, mun_raw, mun_df,
                   radiation_df, weather_df, radiation_geo, final_df,
                   geo_report, raised>>

\* lines 27-31
ConcatenateRadiationData ==
    /\ pc = "concatenate"
    /\ UNCHANGED acquisition
    /\ IF ConcatUnreadable(raw_dir.radiation)
       THEN /\ pc' = Propagate("ParserError")
            /\ raised' = "ParserError"
            /\ UNCHANGED <<radiation_raw, completed>>
       ELSE IF ConcatNothing(raw_dir.radiation)
       THEN /\ pc' = Propagate("ValueError")
            /\ raised' = "ValueError"
            /\ UNCHANGED <<radiation_raw, completed>>
       ELSE /\ radiation_raw' = concatenate_csv_files(raw_dir.radiation)
            /\ pc' = "read_municipality"
            /\ completed' = Append(completed, "concatenate_radiation_data")
            /\ UNCHANGED raised
    /\ UNCHANGED <<raw_dir, cleaned_dir, weather_raw, mun_raw, mun_df,
                   radiation_df, weather_df, radiation_geo, final_df,
                   geo_report>>

\* line 34
ReadMunicipality ==
    /\ pc = "read_municipality"
    /\ UNCHANGED acquisition
    /\ IF ~raw_dir.municipality.readable
       THEN /\ pc' = Propagate("ParserError")
            /\ raised' = "ParserError"
            /\ UNCHANGED <<mun_raw, completed>>
       ELSE /\ mun_raw' = raw_dir.municipality.rows
            /\ pc' = "read_weather"
            /\ completed' = Append(completed, "read_csv municipality")
            /\ UNCHANGED raised
    /\ UNCHANGED <<raw_dir, cleaned_dir, radiation_raw, weather_raw, mun_df,
                   radiation_df, weather_df, radiation_geo, final_df,
                   geo_report>>

\* line 37
ReadWeather ==
    /\ pc = "read_weather"
    /\ UNCHANGED acquisition
    /\ IF ~raw_dir.weather.readable
       THEN /\ pc' = Propagate("ParserError")
            /\ raised' = "ParserError"
            /\ UNCHANGED <<weather_raw, completed>>
       ELSE /\ weather_raw' = raw_dir.weather.rows
            /\ pc' = "clean_radiation"
            /\ completed' = Append(completed, "read_csv weather")
            /\ UNCHANGED raised
    /\ UNCHANGED <<raw_dir, cleaned_dir, radiation_raw, mun_raw, mun_df,
                   radiation_df, weather_df, radiation_geo, final_df,
                   geo_report>>

\* the header line to_csv writes: the columns of the table (none when the
\* association kept no row), under the names they have in the table
CsvHeader(t) == IF t = <<>> THEN {} ELSE (DOMAIN t[1]) \ {"row"}

\* the lines to_csv(index=False) writes for the rows
CsvRows(t) ==
    [i \in 1..Len(t) |-> [c \in (DOMAIN t[i]) \ {"row"} |-> t[i][c]]]

\* line 69: final_df.to_csv(data.csv, sep=";", index=False)
WriteCsv ==
    /\ pc = "write"
    /\ UNCHANGED acquisition
    /\ cleaned_dir' = [exists |-> TRUE, fresh |-> TRUE,
                       header |-> CsvHeader(final_df),
                       rows |-> CsvRows(final_df)]
    /\ pc' = "done"
    /\ completed' = Append(completed, "to_csv")
    /\ UNCHANGED <<raw_dir, radiation_raw, weather_raw, mun_raw, mun_df,
                   radiation_df, weather_df, radiation_geo, final_df,
                   geo_report, raised>>

\* line 41
CleanRadiationData ==
    /\ pc = "clean_radiation"
    /\ UNCHANGED acquisition
    /\ IF RadiationNameless(radiation_raw)
       THEN /\ pc' = Propagate("AttributeError")
            /\ raised' = "AttributeError"
            /\ UNCHANGED <<radiation_df, completed>>
       ELSE /\ radiation_df' = clean_radiation_data(radiation_raw)
            /\ pc' = "clean_municipality"
            /\ completed' = Append(completed, "clean_radiation_data")
            /\ UNCHANGED raised
    /\ UNCHANGED <<raw_dir, cleaned_dir, radiation_raw, weather_raw, mun_raw,
                   mun_df, weather_df, radiation_geo, final_df, geo_report>>

\* line 47
CleanWeatherData ==
    /\ pc = "clean_weather"
    /\ UNCHANGED acquisition
    /\ weather_df' = clean_weather_data(weather_raw)
    /\ pc' = "geolocate"
    /\ completed' = Append(completed, "clean_weather_data")
    /\ UNCHANGED <<raw_dir, cleaned_dir, radiation_raw, weather_raw, mun_raw,
                   mun_df, radiation_df, radiation_geo, final_df, geo_report,
                   raised>>

\* lines 52-57
GeolocateRadiationData ==
    /\ pc = "geolocate"
    /\ UNCHANGED acquisition
    /\ radiation_geo' = geolocate_radiation_data(radiation_df, mun_df)
    /\ geo_report' = GeolocateReport(radiation_df, mun_df)
    /\ pc' = "associate"
    /\ completed' = Append(completed, "geolocate_radiation_data")
    /\ UNCHANGED <<raw_dir, cleaned_dir, radiation_raw, weather_raw, mun_raw,
                   mun_df, radiation_df, weather_df, final_df, raised>>

\* lines 59-65
AssociateWeatherToRadiation ==
    /\ pc = "associate"
    /\ UNCHANGED acquisition
    /\ IF AssociateRaises(radiation_geo)
       THEN /\ pc' = Propagate("ZeroDivisionError")
            /\ raised' = "ZeroDivisionError"
            /\ UNCHANGED <<final_df, completed>>
       ELSE /\ final_df' = associate_weather_to_radiation(radiation_geo, weather_df)
            /\ pc' = "write"
            /\ completed' = Append(completed, "associate_weather_to_radiation")
            /\ UNCHANGED raised
    /\ UNCHANGED <<raw_dir, cleaned_dir, radiation_raw, weather_raw, mun_raw,
                   mun_df, radiation_df, weather_df, radiation_geo, geo_report>>

----------------------------------------------------------------------------
(* Specifications *)

\* clean_all_data from line 44 on, the radiation and weather tables cleaned
Init ==
    /\ pc = "clean_municipality"
    /\ raw_dir = NoDir
    /\ cleaned_dir = NoFile
    /\ completed = <<>>
    /\ radiation_raw = <<>>
    /\ weather_raw = PipelineWeatherRaw
    /\ mun_raw \in Tables(PipelineMunRows, MaxMun)
    /\ radiation_df \in RadiationTables({<<"A">>, <<"B">>}, {<<1, 0>>, <<0, 0>>})
    /\ weather_df = <<>>
    /\ mun_df = <<>>
    /\ radiation_geo = <<>>
    /\ final_df = <<>>
    /\ geo_report = NoReport
    /\ raised = ""
    /\ dl = NoDownload
    /\ db = NoDb
    /\ pw = NoGet

Next ==
    \/ CleanMunicipalityData
    \/ CleanWeatherData
    \/ GeolocateRadiationData
    \/ AssociateWeatherToRadiation

Spec == Init /\ [][Next]_vars

\* clean_municipality_data on any gazetteer
InitMun ==
    /\ pc = "clean_municipality"
    /\ raw_dir = NoDir
    /\ cleaned_dir = NoFile
    /\ completed = <<>>
    /\ radiation_raw = <<>>
    /\ weather_raw = <<>>
    /\ mun_raw \in Tables(MunRows, MaxMun)
    /\ radiation_df = <<>>
    /\ weather_df = <<>>
    /\ mun_df = <<>>
    /\ radiation_geo = <<>>
    /\ final_df = <<>>
    /\ geo_report = NoReport
    /\ raised = ""
    /\ dl = NoDownload
    /\ db = NoDb
    /\ pw = NoGet

NextMun == CleanMunicipalityData

SpecMun == InitMun /\ [][NextMun]_vars

\* concatenate_radiation_data on any raw directory
InitConcat ==
    /\ pc = "concatenate"
    /\ raw_dir \in {[NoDir EXCEPT !.radiation = f] :
                      f \in Tables(RadiationFiles, MaxFiles)}
    /\ cleaned_dir = NoFile
    /\ completed = <<>>
    /\ radiation_raw = <<>>
    /\ weather_raw = <<>>
    /\ mun_raw = <<>>
    /\ mun_df = <<>>
    /\ radiation_df = <<>>
    /\ weather_df = <<>>
    /\ radiation_geo = <<>>
    /\ final_df = <<>>
    /\ geo_report = NoReport
    /\ raised = ""
    /\ dl = NoDownload
    /\ db = NoDb
    /\ pw = NoGet

NextConcat == ConcatenateRadiationData

SpecConcat == InitConcat /\ [][NextConcat]_vars

\* the radiation files of the whole runs
RunRadiationDirs ==
    LET file(n, r) == [name |-> n, readable |-> TRUE, rows |-> r]
        soil  == <<"asnr", "soil", "radiation", "data", "2020.csv">>
        water == <<"asnr", "water", "radiation", "data", "2021.csv">>
    IN  {<<>>,
         <<[name |-> soil, readable |-> FALSE, rows |-> <<>>]>>,
         <<file(soil, <<FileRow(NaNName, 7)>>)>>,
         <<file(soil, <<FileRow(<<"a">>, 5)>>)>>,
         <<file(soil, <<FileRow(<<"a">>, 5)>>),
           file(water, <<FileRow(<<"L", "'", "A">>, 7)>>)>>}

\* the gazetteer files of the whole runs
RunMunicipalityFiles ==
    {Unreadable} \cup
    {[readable |-> TRUE, rows |-> <<MunRow(n, 1, c)>>] :
        n \in {<<"a">>, <<"b">>, NaNName},
        c \in {d \in MunCoordinates :
                 d.latitude_centre # NaN /\ d.longitude_centre # NaN}}

\* the weather files of the whole runs
RunWeatherFiles ==
    {Unreadable, [readable |-> TRUE, rows |-> <<>>],
     [readable |-> TRUE, rows |-> PipelineWeatherRaw]}

\* clean_all_data from its first line to its last
InitRun ==
    /\ pc = "delete_files"
    /\ raw_dir \in [radiation : RunRadiationDirs,
                     municipality : RunMunicipalityFiles,
                     weather : RunWeatherFiles]
    /\ cleaned_dir \in {NoFile, StaleFile}
    /\ completed = <<>>
    /\ radiation_raw = <<>>
    /\ weather_raw = <<>>
    /\ mun_raw = <<>>
    /\ mun_df = <<>>
    /\ radiation_df = <<>>
    /\ weather_df = <<>>
    /\ radiation_geo = <<>>
    /\ final_df = <<>>
    /\ geo_report = NoReport
    /\ raised = ""
    /\ dl = NoDownload
    /\ db = NoDb
    /\ pw = NoGet

NextRun ==
    \/ DeleteFilesInDirectory
    \/ ConcatenateRadiationData
    \/ ReadMunicipality
    \/ ReadWeather
    \/ CleanRadiationData
    \/ CleanMunicipalityData
    \/ CleanWeatherData
    \/ GeolocateRadiationData
    \/ AssociateWeatherToRadiation
    \/ WriteCsv

SpecRun == InitRun /\ [][NextRun]_vars

\* clean_radiation_data on any concatenated table
InitRad ==
    /\ pc = "clean_radiation"
    /\ raw_dir = NoDir
    /\ cleaned_dir = NoFile
    /\ completed = <<>>
    /\ radiation_raw \in RawRadiationTables
    /\ weather_raw = <<>>
    /\ mun_raw = <<>>
    /\ mun_df = <<>>
    /\ radiation_df = <<>>
    /\ weather_df = <<>>
    /\ radiation_geo = <<>>
    /\ final_df = <<>>
    /\ geo_report = NoReport
    /\ raised = ""
    /\ dl = NoDownload
    /\ db = NoDb
    /\ pw = NoGet

NextRad == CleanRadiationData

SpecRad == InitRad /\ [][NextRad]_vars

\* clean_weather_data on any raw weather table
InitWeather ==
    /\ pc = "clean_weather"
    /\ raw_dir = NoDir
    /\ cleaned_dir = NoFile
    /\ completed = <<>>
    /\ radiation_raw = <<>>
    /\ weather_raw \in RawWeatherTables
    /\ mun_raw = <<>>
    /\ mun_df = <<>>
    /\ radiation_df = <<>>
    /\ weather_df = <<>>
    /\ radiation_geo = <<>>
    /\ final_df = <<>>
    /\ geo_report = NoReport
    /\ raised = ""
    /\ dl = NoDownload
    /\ db = NoDb
    /\ pw = NoGet

NextWeather == CleanWeatherData

SpecWeather == InitWeather /\ [][NextWeather]_vars

\* associate_weather_to_radiation on any geolocated and weather tables
InitAssoc ==
    /\ pc = "associate"
    /\ raw_dir = NoDir
    /\ cleaned_dir = NoFile
    /\ completed = <<>>
    /\ radiation_raw = <<>>
    /\ weather_raw = <<>>
    /\ mun_raw = <<>>
    /\ mun_df = <<>>
    /\ radiation_df = <<>>
    /\ radiation_geo \in RadiationGeoTables
    /\ weather_df \in WeatherTables
    /\ final_df = <<>>
    /\ geo_report = NoReport
    /\ raised = ""
    /\ dl = NoDownload
    /\ db = NoDb
    /\ pw = NoGet

NextAssoc == AssociateWeatherToRadiation

SpecAssoc == InitAssoc /\ [][NextAssoc]_vars

----------------------------------------------------------------------------
(* Properties of associate_weather_to_radiation, checked under SpecAssoc *)

\* the result rows made of the radiation row labelled l
ResultRowsOf(l) == {k \in 1..Len(final_df) : final_df[k].row = l}

\* brute force: the distances from r to the weather rows dated ts
DistancesAt(r, ts) ==
    {HaversineM(r, weather_df[j]) :
        j \in {n \in 1..Len(weather_df) : weather_df[n].DATE = ts}}

\* brute force: the distances from r to the weather rows of r's calendar day
DistancesOnDay(r) ==
    {HaversineM(r, weather_df[j]) :
        j \in {n \in 1..Len(weather_df) :
                 CalendarDay(weather_df[n].DATE) = CalendarDay(r.date_start)}}

MinOf(S) == CHOOSE d \in S : \A e \in S : d <= e

\* C1: every result row records a distance <= max_distance_m; a radiation
\* row whose nearest weather point of its day is farther than that has no
\* result row; one whose nearest point of its date is at exactly
\* max_distance_m has a result row.
C1_DistanceBound ==
    pc = "write" =>
        /\ \A k \in 1..Len(final_df) :
              final_df[k].DISTANCE_RADIATION_WEATHER_M <= max_distance_m
        /\ \A i \in 1..Len(radiation_geo) :
              LET r == radiation_geo[i]
              IN  /\ (DistancesOnDay(r) # {}
                        /\ MinOf(DistancesOnDay(r)) > max_distance_m)
                        => ResultRowsOf(r.row) = {}
                  /\ (DistancesAt(r, r.date_start) # {}
                        /\ MinOf(DistancesAt(r, r.date_start)) = max_distance_m)
                        => ResultRowsOf(r.row) # {}

\* one row kept at exactly max_distance_m, another dropped as too far
C1_Witness ==
    /\ pc = "write"
    /\ \E k \in 1..Len(final_df) :
          final_df[k].DISTANCE_RADIATION_WEATHER_M = max_distance_m
    /\ \E i \in 1..Len(radiation_geo) :
          /\ DistancesAt(radiation_geo[i], radiation_geo[i].date_start) # {}
          /\ ResultRowsOf(radiation_geo[i].row) = {}

\* C2: in every result row the matched weather date is the row's sampling
\* start date.
C2_SameDate ==
    pc = "write" =>
        \A k \in 1..Len(final_df) :
            final_df[k].DATE_METEO = final_df[k].date_start

\* a match made while the weather table also holds rows of another day
C2_Witness ==
    /\ pc = "write"
    /\ Len(final_df) > 0
    /\ \E j \in 1..Len(weather_df) : weather_df[j].DATE # final_df[1].date_start

\* C4: the distance of every result row is the least distance from its
\* radiation point to a weather row of its date, and its snowfall and
\* rainfall are those of a weather row of that date at that distance.
C4_NearestNeighbour ==
    pc = "write" =>
        \A k \in 1..Len(final_df) :
            LET o == final_df[k]
            IN  /\ DistancesAt(o, o.date_start) # {}
                /\ o.DISTANCE_RADIATION_WEATHER_M = MinOf(DistancesAt(o, o.date_start))
                /\ \E j \in 1..Len(weather_df) :
                      /\ weather_df[j].DATE = o.date_start
                      /\ HaversineM(o, weather_df[j]) = o.DISTANCE_RADIATION_WEATHER_M
                      /\ weather_df[j].PRENEI = o.PRENEI
                      /\ weather_df[j].PRELIQ = o.PRELIQ

\* the nearest point of the day is not the first weather row of the day
C4_Witness ==
    /\ pc = "write"
    /\ \E k \in 1..Len(final_df) :
          \E j \in 1..Len(weather_df) :
              /\ weather_df[j].DATE = final_df[k].date_start
              /\ HaversineM(final_df[k], weather_df[j])
                    > final_df[k].DISTANCE_RADIATION_WEATHER_M
              /\ \A n \in 1..(j - 1) :
                    weather_df[n].DATE # final_df[k].date_start

\* C5 as claimed: a radiation row with a weather row of its calendar day
\* within max_distance_m has a result row, whatever its time of day.
C5_CompletePerCalendarDay ==
    pc = "write" =>
        \A i \in 1..Len(radiation_geo) :
            (DistancesOnDay(radiation_geo[i]) # {}
                /\ MinOf(DistancesOnDay(radiation_geo[i])) <= max_distance_m)
                => ResultRowsOf(radiation_geo[i].row) # {}

\* the weather rows whose date is the start date of some radiation row
WeatherOfRadiationDates ==
    Select(weather_df, {j \in 1..Len(weather_df) :
        \E i \in 1..Len(radiation_geo) :
            radiation_geo[i].date_start = weather_df[j].DATE})

\* C7: a radiation row whose date no weather row has gives no result row
\* and no error; the weather rows whose date no radiation row has can be
\* removed without changing the result; no result row carries a weather
\* date other than its own date.
C7_DayIsolation ==
    /\ (pc = "raised" => Len(radiation_geo) = 0)
    /\ pc = "write" =>
        /\ \A i \in 1..Len(radiation_geo) :
              DistancesAt(radiation_geo[i], radiation_geo[i].date_start) = {}
                  => ResultRowsOf(radiation_geo[i].row) = {}
        /\ final_df = associate_weather_to_radiation(radiation_geo,
                                                     WeatherOfRadiationDates)
        /\ \A k \in 1..Len(final_df) :
              \E i \in 1..Len(radiation_geo) :
                  /\ radiation_geo[i].row = final_df[k].row
                  /\ radiation_geo[i].date_start = final_df[k].DATE_METEO

\* a radiation row of a day without weather beside a matched one, and a
\* weather row of a day without radiation
C7_Witness ==
    /\ pc = "write"
    /\ Len(final_df) > 0
    /\ \E i \in 1..Len(radiation_geo) :
          DistancesAt(radiation_geo[i], radiation_geo[i].date_start) = {}
    /\ Len(WeatherOfRadiationDates) < Len(weather_df)

----------------------------------------------------------------------------
(* Properties of the pipeline, checked under Spec and SpecMun *)

\* clean_municipality_data has returned
MunicipalityCleaned == pc = "clean_weather"

\* geolocate_radiation_data has returned
Geolocated ==
    pc = "associate" \/ pc = "write"
        \/ (pc = "raised" /\ raised = "ZeroDivisionError")

\* the gazetteer rows of the cleaned name of row i
SameCleanedName(i) ==
    {j \in 1..Len(mun_raw) :
        NormalizeName(mun_raw[j].nom_standard_majuscule)
            = NormalizeName(mun_raw[i].nom_standard_majuscule)}

\* C8: the cleaned gazetteer has exactly one row for each cleaned name of
\* the input, and that row has the greatest population among the input rows
\* of the name (a row without population only when none of them has one).
C8_MunicipalityDedup ==
    MunicipalityCleaned =>
        /\ \A i \in 1..Len(mun_raw) :
              Cardinality({k \in 1..Len(mun_df) :
                  mun_df[k].nom = NormalizeName(mun_raw[i].nom_standard_majuscule)}) = 1
        /\ \A k \in 1..Len(mun_df) :
              /\ mun_df[k].index \in 1..Len(mun_raw)
              /\ mun_df[k].nom
                    = NormalizeName(mun_raw[mun_df[k].index].nom_standard_majuscule)
              /\ \A j \in SameCleanedName(mun_df[k].index) :
                    \/ mun_raw[j].population = NaN
                    \/ /\ mun_raw[mun_df[k].index].population # NaN
                       /\ mun_raw[mun_df[k].index].population
                             >= mun_raw[j].population

\* two rows of one cleaned name, the later in the file the more populous,
\* and the later one kept
C8_Witness ==
    /\ MunicipalityCleaned
    /\ Len(mun_raw) = 2
    /\ SameCleanedName(1) = {1, 2}
    /\ mun_raw[1].nom_standard_majuscule # mun_raw[2].nom_standard_majuscule
    /\ mun_raw[1].population # NaN
    /\ mun_raw[2].population > mun_raw[1].population
    /\ Len(mun_df) = 1
    /\ mun_df[1].index = 2

\* the rows of a table made of the cleaned radiation row labelled l
RowsOf(t, l) == {k \in 1..Len(t) : t[k].row = l}

\* C3: every row of the cleaned radiation table gives at most one row of
\* the geolocated table and at most one row of the final table, so neither
\* is longer than the cleaned radiation table.
C3_NoFanOut ==
    /\ Geolocated =>
          /\ \A i \in 1..Len(radiation_df) :
                Cardinality(RowsOf(radiation_geo, radiation_df[i].row)) <= 1
          /\ Len(radiation_geo) <= Len(radiation_df)
    /\ pc = "write" =>
          /\ \A i \in 1..Len(radiation_df) :
                Cardinality(RowsOf(final_df, radiation_df[i].row)) <= 1
          /\ Len(final_df) <= Len(radiation_df)

\* a run to the end whose gazetteer names one municipality twice and whose
\* radiation rows of that municipality each reach the final table once
C3_Witness ==
    /\ pc = "write"
    /\ Len(mun_raw) = 2
    /\ SameCleanedName(1) = {1, 2}
    /\ Len(radiation_df) = 2
    /\ Len(final_df) = 2

\* C6 as claimed, for a cleaned radiation table that has rows: neither
\* geolocate_radiation_data nor associate_weather_to_radiation raises,
\* whatever the misses.
C6_JoinMissesNeverRaise ==
    [][((pc = "geolocate" \/ pc = "associate") /\ Len(radiation_df) > 0)
            => pc' # "raised"]_vars

\* the cleaned gazetteer rows of the name of the radiation row r
Matches(r) == {j \in 1..Len(mun_df) : mun_df[j].nom = r.Commune}

\* C9: every geolocated row has a latitude, a longitude and a parsed start
\* date; a radiation row without gazetteer row of its name, or whose
\* gazetteer row misses a coordinate, has no geolocated row.
C9_GeolocatedInvariant ==
    Geolocated =>
        /\ \A k \in 1..Len(radiation_geo) :
              /\ radiation_geo[k].latitude # NaN
              /\ radiation_geo[k].longitude # NaN
              /\ radiation_geo[k].date_start # NaT
        /\ \A i \in 1..Len(radiation_df) :
              (\/ Matches(radiation_df[i]) = {}
               \/ \E j \in Matches(radiation_df[i]) :
                     mun_df[j].latitude = NaN \/ mun_df[j].longitude = NaN)
                  => RowsOf(radiation_geo, radiation_df[i].row) = {}

\* one radiation row geolocated, another left out because its municipality
\* has a latitude and no longitude
C9_Witness ==
    /\ Geolocated
    /\ Len(radiation_geo) > 0
    /\ \E i \in 1..Len(radiation_df) :
          /\ RowsOf(radiation_geo, radiation_df[i].row) = {}
          /\ \E j \in Matches(radiation_df[i]) :
                mun_df[j].latitude # NaN /\ mun_df[j].longitude = NaN

\* C10: for a cleaned radiation table with a row, the reported total is the
\* number of its rows and the reported kept is the number of them joined to
\* a gazetteer row that has a latitude.
C10_RetentionRatio ==
    (Geolocated /\ Len(radiation_df) > 0) =>
        /\ geo_report.total = Len(radiation_df)
        /\ geo_report.kept =
              Cardinality({i \in 1..Len(radiation_df) :
                  \E j \in Matches(radiation_df[i]) : mun_df[j].latitude # NaN})

\* a report that counts a matched row and an unmatched row, and counts as
\* kept a row that the missing longitude then removes
C10_Witness ==
    /\ Geolocated
    /\ geo_report.total = 2
    /\ geo_report.kept = 1
    /\ Len(radiation_geo) = 0
    /\ \E i \in 1..Len(radiation_df) : Matches(radiation_df[i]) = {}

----------------------------------------------------------------------------
(* Properties of clean_radiation_data, checked under SpecRad *)

\* clean_radiation_data has returned
RadiationCleaned == pc = "clean_municipality"

\* the name begins with L'
BeginsWithL(s) == Len(s) >= 2 /\ s[1] = "L" /\ s[2] = "'"

\* C11 as claimed: normalising a normalised name gives the same name, and
\* no normalised name begins with L'.  The names are those that lines
\* 121-126 of clean_radiation_data have normalised.
C11_NormalizeIdempotent ==
    RadiationCleaned =>
        \A k \in 1..Len(radiation_df) :
            /\ NormalizeName(radiation_df[k].Commune) = radiation_df[k].Commune
            /\ ~BeginsWithL(radiation_df[k].Commune)

\* C12 as claimed: no two rows of the cleaned radiation table agree on start
\* date, end date, municipality name as returned, radionuclide and medium.
C12_KeyUniqueness ==
    RadiationCleaned =>
        \A i, j \in 1..Len(radiation_df) :
            i # j =>
                \E c \in {"date_start", "date_end", "Commune", "Radion", "Milieu"} :
                    radiation_df[i][c] # radiation_df[j][c]

\* the row has a value in each of the six columns that must have one
Complete(r) ==
    \A c \in {"Commune", "date_start", "Resultat", "Unite", "Radion", "Milieu"} :
        r[c] # RadiationMissing[c]

\* the rows agree on every column but the medium
SameButMedium(a, b) ==
    \A c \in (DOMAIN a) \ {"row", "Milieu"} : a[c] = b[c]

\* a complete row before row i of the concatenated table has its key
EarlierOfKey(i) ==
    \E j \in 1..(i - 1) :
        /\ Complete(radiation_raw[j])
        /\ \A c \in {"date_start", "date_end", "Commune", "Radion", "Milieu"} :
              radiation_raw[j][c] = radiation_raw[i][c]

\* the row of the cleaned table made of the row labelled l
CleanedOf(l) == {k \in 1..Len(radiation_df) : radiation_df[k].row = l}

\* C13: of two complete rows that differ in the medium alone, Sol and Eau,
\* neither is dropped as a duplicate of the other: each one that is the
\* first of its key in the table is in the cleaned table.
C13_MediumInDedupKey ==
    RadiationCleaned =>
        \A i, j \in 1..Len(radiation_raw) :
            (/\ Complete(radiation_raw[i]) /\ Complete(radiation_raw[j])
             /\ radiation_raw[i].Milieu = "Sol" /\ radiation_raw[j].Milieu = "Eau"
             /\ SameButMedium(radiation_raw[i], radiation_raw[j]))
            => /\ ~EarlierOfKey(i) => CleanedOf(i) # {}
               /\ ~EarlierOfKey(j) => CleanedOf(j) # {}

\* a Sol row and an Eau row, otherwise the same, both cleaned
C13_Witness ==
    /\ RadiationCleaned
    /\ \E i, j \in 1..Len(radiation_raw) :
          /\ Complete(radiation_raw[i]) /\ Complete(radiation_raw[j])
          /\ radiation_raw[i].Milieu = "Sol" /\ radiation_raw[j].Milieu = "Eau"
          /\ SameButMedium(radiation_raw[i], radiation_raw[j])
          /\ CleanedOf(i) # {} /\ CleanedOf(j) # {}

\* C14: every row of the cleaned radiation table has a result, a start
\* date, a municipality, a unit, a radionuclide and a medium, and its
\* columns are the required columns and no others; a call that raises
\* returns no table.
C14_CleanedRadiationInvariant ==
    /\ RadiationCleaned =>
          \A k \in 1..Len(radiation_df) :
              /\ \A c \in {"Resultat", "date_start", "Commune", "Unite",
                            "Radion", "Milieu"} :
                    radiation_df[k][c] # RadiationMissing[c]
              /\ (DOMAIN radiation_df[k]) \ {"row"} = RadiationRequiredColumns
    /\ pc = "raised" => radiation_df = <<>>

\* a row without a result is dropped beside a complete row, which loses the
\* column that is not required
C14_Witness ==
    /\ RadiationCleaned
    /\ Len(radiation_df) = 1
    /\ \E i \in 1..Len(radiation_raw) :
          /\ radiation_raw[i].Resultat = NaN
          /\ radiation_raw[i].Commune # NaNName
          /\ radiation_raw[i].date_start # NaNText
          /\ CleanedOf(i) = {}
    /\ \E i \in 1..Len(radiation_raw) :
          /\ "Station" \in DOMAIN radiation_raw[i]
          /\ CleanedOf(i) # {}

----------------------------------------------------------------------------
(* Properties of clean_weather_data, checked under SpecWeather *)

\* clean_weather_data has returned
WeatherCleaned == pc = "geolocate"

\* C15 as claimed: every row of the cleaned weather table has a date that
\* was parsed, a snowfall, a rainfall, a latitude and a longitude.
C15_CleanedWeatherInvariant ==
    WeatherCleaned =>
        \A k \in 1..Len(weather_df) :
            /\ weather_df[k].DATE # NaT
            /\ weather_df[k].PRENEI # NaN
            /\ weather_df[k].PRELIQ # NaN
            /\ weather_df[k].latitude # NaN
            /\ weather_df[k].longitude # NaN

----------------------------------------------------------------------------
(* Properties of a whole run of clean_all_data, checked under SpecRun *)

\* the rename table of CLEANED_DATA_CONFIG
RenameTable ==
    [date_start  |-> "Date start sampling radioactivity",
     date_end    |-> "Date end sampling radioactivity",
     Resultat    |-> "Result radioactivity",
     Incertitude |-> "Absolute uncertainty radioactivity",
     Unite       |-> "Unit radioactivity",
     Commune     |-> "Municipality name",
     Espece      |-> "Species measurement environment radioactivity",
     Nature      |-> "Nature measurement environment radioactivity",
     Radion      |-> "Radionuclide",
     Milieu      |-> "Measurement environment",
     latitude    |-> "Latitude",
     longitude   |-> "Longitude",
     DATE_METEO  |-> "Date weather",
     PRENEI      |-> "Snowfall",
     PRELIQ      |-> "Rainfall",
     DISTANCE_RADIATION_WEATHER_M |->
         "Distance measurement weather and radiation m"]

\* C16 as claimed: the header of the file written names every column of the
\* associated table by its label in the rename table.
C16_RenamedHeader ==
    (pc = "done" /\ final_df # <<>>) =>
        cleaned_dir.header = {RenameTable[c] : c \in CsvHeader(final_df)}

\* the steps before the write, in the order of clean_all_data
StepsBeforeWrite ==
    <<"delete_files_in_directory", "concatenate_radiation_data",
      "read_csv municipality", "read_csv weather", "clean_radiation_data",
      "clean_municipality_data", "clean_weather_data",
      "geolocate_radiation_data", "associate_weather_to_radiation">>

\* C17: data.csv is written by a run only after the concatenation, the
\* reads, the three cleaners, the geolocation and the association have all
\* returned and none has raised; once a step has raised the run is over and
\* has written no file.
C17_AllOrNothing ==
    /\ cleaned_dir.fresh =>
          /\ SubSeq(completed, 1, Len(StepsBeforeWrite)) = StepsBeforeWrite
          /\ raised = ""
          /\ cleaned_dir.rows = CsvRows(final_df)
    /\ raised # "" => (pc = "raised" /\ ~cleaned_dir.fresh)

\* a run that wrote a file with a row
C17_Witness ==
    /\ pc = "done"
    /\ cleaned_dir.fresh
    /\ cleaned_dir.rows # <<>>
    /\ completed = Append(StepsBeforeWrite, "to_csv")

\* a run that the last step before the write ended, with no file written
C17_RaisedLate ==
    /\ pc = "raised"
    /\ raised = "ZeroDivisionError"
    /\ Len(completed) = Len(StepsBeforeWrite) - 1
    /\ ~cleaned_dir.exists

----------------------------------------------------------------------------
(* Properties of concatenate_radiation_data, checked under SpecConcat *)

\* C18 as claimed: when no file of the directory matches the pattern, the
\* concatenation returns an empty table and does not raise.
C18_EmptyMatchSet ==
    [][(pc = "concatenate" /\ MatchingFiles(raw_dir.radiation) = <<>>)
          => (pc' # "raised" /\ radiation_raw' = <<>>)]_vars

----------------------------------------------------------------------------
(* Order of the result of associate_weather_to_radiation, under SpecAssoc *)

\* the position in the geolocated table of the row labelled l
PositionOf(l) == CHOOSE i \in 1..Len(radiation_geo) : radiation_geo[i].row = l

\* C19: the result rows are in ascending order of start date and, within a
\* date, in the order of the radiation rows they are made of.  (The result
\* is a function of the two tables: the groups are taken by sorted key and
\* the nearest-neighbour query has no random part.)
C19_OutputOrder ==
    pc = "write" =>
        \A k, l \in 1..Len(final_df) :
            k < l =>
                \/ final_df[k].date_start < final_df[l].date_start
                \/ /\ final_df[k].date_start = final_df[l].date_start
                   /\ PositionOf(final_df[k].row) < PositionOf(final_df[l].row)

\* two result rows whose radiation rows come in the other order of date
C19_Witness ==
    /\ pc = "write"
    /\ \E k, l \in 1..Len(final_df) :
          /\ k < l
          /\ final_df[k].date_start < final_df[l].date_start
          /\ PositionOf(final_df[k].row) > PositionOf(final_df[l].row)

----------------------------------------------------------------------------
(* Purity of the stages, checked under SpecRun *)

\* the columns of a gazetteer and their cells, the row label left out
Cells(t) ==
    [i \in 1..Len(t) |-> [c \in (DOMAIN t[i]) \ {"index"} |-> t[i][c]]]

\* C20 as claimed: a stage leaves each table it is given with the columns
\* and the cells it had.
C20_StagesArePure ==
    [][/\ pc = "clean_radiation" => radiation_raw' = radiation_raw
       /\ pc = "clean_municipality" => Cells(mun_raw') = Cells(mun_raw)
       /\ pc = "clean_weather" => weather_raw' = weather_raw
       /\ pc = "geolocate" => (radiation_df' = radiation_df /\ mun_df' = mun_df)
       /\ pc = "associate" =>
             (radiation_geo' = radiation_geo /\ weather_df' = weather_df)]_vars

----------------------------------------------------------------------------
(* Frame of associate_weather_to_radiation, checked under SpecAssoc *)

\* the columns the association adds
AddedColumns == {"DATE_METEO", "PRENEI", "PRELIQ", "DISTANCE_RADIATION_WEATHER_M"}

\* C21: a result row has every column of the geolocated radiation row it is
\* made of, with the value it had there (latitude and longitude included),
\* and four more columns: weather date, snowfall, rainfall and distance.
C21_AssociatorFrame ==
    pc = "write" =>
        \A k \in 1..Len(final_df) :
            LET r == radiation_geo[PositionOf(final_df[k].row)]
            IN  /\ \A c \in DOMAIN r : final_df[k][c] = r[c]
                /\ DOMAIN final_df[k] = (DOMAIN r) \cup AddedColumns
                /\ AddedColumns \cap (DOMAIN r) = {}

\* a result row matched to a weather point that lies elsewhere
C21_Witness ==
    /\ pc = "write"
    /\ \E k \in 1..Len(final_df) :
          /\ final_df[k].DISTANCE_RADIATION_WEATHER_M > 0
          /\ final_df[k].latitude =
                 radiation_geo[PositionOf(final_df[k].row)].latitude

----------------------------------------------------------------------------
(* A gazetteer row without a name, checked under SpecMun *)

\* C22 as claimed: clean_municipality_data does not raise on a gazetteer
\* that has a row whose primary name is missing.
C22_NullNameRecovered ==
    [][(/\ pc = "clean_municipality"
        /\ \E i \in 1..Len(mun_raw) :
              mun_raw[i].nom_standard_majuscule = NaNName)
          => pc' # "raised"]_vars

----------------------------------------------------------------------------
(* Medium tagging, checked under SpecConcat *)

\* concatenate_radiation_data has returned
Concatenated == pc = "read_municipality"

\* the rows of the matched files before file i
RECURSIVE RowsBefore(_, _)
RowsBefore(files, i) ==
    IF i <= 1 THEN 0
    ELSE RowsBefore(files, i - 1) + Len(files[i - 1].rows)

\* the tag the claim gives the medium token of a file name
TagOfToken(token) ==
    IF token = "soil" THEN "Sol" ELSE IF token = "water" THEN "Eau" ELSE token

\* C23: every row read from a matched file has, as its medium, the tag of
\* the second token of the name of its file, or that token when the mapping
\* has no tag for it, whatever medium the row had in the file; its other
\* columns are as in the file.
C23_MediumTagging ==
    Concatenated =>
        LET files == MatchingFiles(raw_dir.radiation)
        IN  /\ Len(radiation_raw) = RowsBefore(files, Len(files) + 1)
            /\ \A i \in 1..Len(files) :
                  \A j \in 1..Len(files[i].rows) :
                      LET out == radiation_raw[RowsBefore(files, i) + j]
                      IN  /\ out.Milieu = TagOfToken(files[i].name[2])
                          /\ \A c \in (DOMAIN files[i].rows[j]) \ {"Milieu"} :
                                out[c] = files[i].rows[j][c]

\* a row of a file of a medium without tag, and a row of a soil file that
\* had the medium Eau in the file
C23_Witness ==
    /\ Concatenated
    /\ LET files == MatchingFiles(raw_dir.radiation)
       IN  /\ \E i \in 1..Len(files) :
                 /\ files[i].name[2] = "air"
                 /\ Len(files[i].rows) = 1
                 /\ radiation_raw[RowsBefore(files, i) + 1].Milieu = "air"
           /\ \E i \in 1..Len(files) :
                 /\ files[i].name[2] = "soil"
                 /\ Len(files[i].rows) = 1
                 /\ files[i].rows[1].Milieu = "Eau"
                 /\ radiation_raw[RowsBefore(files, i) + 1].Milieu = "Sol"

----------------------------------------------------------------------------
(* Coordinates of the cleaned gazetteer, checked under SpecMun *)

\* C24: the cleaned latitude of a row is its primary latitude when it has
\* one and its fallback latitude otherwise, and the same holds of the
\* longitude, each axis by itself; a cleaned coordinate is missing exactly
\* when both are; a row without coordinates that is alone of its name is
\* kept.
C24_CoordinateCoalescing ==
    MunicipalityCleaned =>
        /\ \A k \in 1..Len(mun_df) :
              LET r == mun_raw[mun_df[k].index]
              IN  /\ mun_df[k].latitude =
                        (IF r.latitude_centre # NaN THEN r.latitude_centre
                         ELSE r.latitude_mairie)
                  /\ mun_df[k].longitude =
                        (IF r.longitude_centre # NaN THEN r.longitude_centre
                         ELSE r.longitude_mairie)
                  /\ mun_df[k].latitude = NaN <=>
                        (r.latitude_centre = NaN /\ r.latitude_mairie = NaN)
                  /\ mun_df[k].longitude = NaN <=>
                        (r.longitude_centre = NaN /\ r.longitude_mairie = NaN)
        /\ \A i \in 1..Len(mun_raw) :
              SameCleanedName(i) = {i} =>
                  \E k \in 1..Len(mun_df) : mun_df[k].index = i

\* a row that takes both coordinates of the fallback, and a row kept with a
\* latitude and no longitude
C24_Witness ==
    /\ MunicipalityCleaned
    /\ \E k \in 1..Len(mun_df) :
          /\ mun_raw[mun_df[k].index].latitude_centre = NaN
          /\ mun_df[k].latitude # NaN
          /\ mun_df[k].longitude # NaN
    /\ \E k \in 1..Len(mun_df) :
          /\ mun_df[k].latitude # NaN
          /\ mun_df[k].longitude = NaN

----------------------------------------------------------------------------
(* Order of the two filters of clean_radiation_data, under SpecRad *)

\* the rows of the concatenated table agree on the five key columns
SameKey(a, b) ==
    \A c \in {"date_start", "date_end", "Commune", "Radion", "Milieu"} :
        a[c] = b[c]

\* row i is complete and no complete row before it has its key
FirstCompleteOfKey(i) ==
    /\ Complete(radiation_raw[i])
    /\ \A j \in 1..(i - 1) :
          Complete(radiation_raw[j]) =>
              ~SameKey(radiation_raw[j], radiation_raw[i])

\* C25: the first complete row of every key is in the cleaned table, even
\* when an incomplete row of the same key comes before it; the cleaned table
\* has no other row.
C25_DropNaBeforeDedup ==
    RadiationCleaned =>
        \A i \in 1..Len(radiation_raw) :
            FirstCompleteOfKey(i) <=> CleanedOf(i) # {}

\* a row without result, then a complete row of the same key, which is kept
C25_Witness ==
    /\ RadiationCleaned
    /\ Len(radiation_raw) = 2
    /\ radiation_raw[1].Resultat = NaN
    /\ Complete(radiation_raw[2])
    /\ SameKey(radiation_raw[1], radiation_raw[2])
    /\ CleanedOf(2) # {}

----------------------------------------------------------------------------
(* The cleaned directory during a run, checked under SpecRun *)

\* C26: the deletion is the first step of a run and no table is loaded
\* before it; from its end to the end of the write the cleaned directory has
\* no data.csv, so a run that a step has ended leaves none, whatever an
\* earlier run had left.
C26_DeleteFirst ==
    /\ completed # <<>> => completed[1] = "delete_files_in_directory"
    /\ pc = "delete_files" =>
          (radiation_raw = <<>> /\ mun_raw = <<>> /\ weather_raw = <<>>)
    /\ (pc # "delete_files" /\ pc # "done") => ~cleaned_dir.exists
    /\ pc = "raised" => cleaned_dir = NoFile

\* a run ended by a step after the inputs were loaded: no data.csv
C26_Witness ==
    /\ pc = "raised"
    /\ completed # <<>>
    /\ completed[1] = "delete_files_in_directory"
    /\ Len(completed) >= 4
    /\ ~cleaned_dir.exists

----------------------------------------------------------------------------
(* Row-by-row filtering of clean_weather_data, under SpecWeather *)

\* the raw weather rows that have both Lambert coordinates, a rainfall and
\* a DATE that is a calendar date
RetainableRows ==
    {i \in 1..Len(weather_raw) :
        /\ weather_raw[i].LAMBX # NaN
        /\ weather_raw[i].LAMBY # NaN
        /\ weather_raw[i].PRELIQ # NaN
        /\ weather_raw[i].DATE >= 1}

\* C27 as claimed: every raw weather row with Lambert coordinates, rainfall
\* and a valid date is in the cleaned table, whatever the other rows hold.
C27_RowByRow ==
    WeatherCleaned => Len(weather_df) = Cardinality(RetainableRows)


----------------------------------------------------------------------------
(* download_file_from_url of src/src/utils/utils.py *)

\* chunks of a response body
MaxChunks == 2

\* the file names the callers pass, split at the dots
WeatherDataFilenameGz == <<"meteofrance_weather_data", "csv", "gz">>
MunicipalityDataFilename == <<"villedereve_municipality_data", "csv">>

\* a chunk of bytes: a piece of a gzip stream, or plain text
Chunk(enc, data) == [enc |-> enc, data |-> data]

DownloadChunks == {Chunk(e, d) : e \in {"gzip", "plain"}, d \in {"a"}}

RECURSIVE Bodies(_)
Bodies(n) ==
    IF n = 0 THEN {<<>>}
    ELSE Bodies(n - 1) \cup
         {Append(b, c) : b \in {x \in Bodies(n - 1) : Len(x) = n - 1},
                         c \in DownloadChunks}

\* line 79
EndsWithGz(name) == name[Len(name)] = "gz"

\* line 80: file_path[:-3]
WithoutGz(name) == SubSeq(name, 1, Len(name) - 1)

\* gzip reads a file made of gzip members only
IsGzipStream(bytes) == \A i \in 1..Len(bytes) : bytes[i].enc = "gzip"

\* lines 82-84: the bytes gzip.open yields
Gunzip(bytes) == [i \in 1..Len(bytes) |-> Chunk("plain", bytes[i].data)]

\* the response of the server, the destination folder and the locals of one
\* call: content_length is NaN when the response has no such header,
\* read_fails is the read that raises (0: none), expected_size is <<>> while
\* the name is unbound
Downloads ==
    [url_ok : BOOLEAN, content_length : {NaN}, body : Bodies(MaxChunks),
     read_fails : 0..(MaxChunks + 1), writable : BOOLEAN,
     filename : {WeatherDataFilenameGz, MunicipalityDataFilename},
     expected_size : {<<>>}, read : {0}, folder : {<<>>},
     file_path : {<<>>}, returned : {<<>>}]

\* the size of the body in the header, or no header
WithHeader(d) ==
    {d, [d EXCEPT !.content_length = Len(d.body)]}

\* the except clause of lines 89-91 prints and raises again
DownloadRaises(exception) ==
    /\ pc' = "raised"
    /\ raised' = exception

\* line 43
FilePath ==
    /\ pc = "file_path"
    /\ UNCHANGED <<pipeline, db, pw, raised>>
    /\ dl' = [dl EXCEPT !.file_path = dl.filename]
    /\ pc' = "urlopen"

\* line 48
UrlOpen ==
    /\ pc = "urlopen"
    /\ UNCHANGED <<pipeline, db, pw>>
    /\ IF dl.url_ok
       THEN /\ pc' = "content_length"
            /\ UNCHANGED <<dl, raised>>
       ELSE /\ DownloadRaises("URLError")
            /\ UNCHANGED dl

\* lines 50-52: expected_size is assigned only under the if
ExpectedSize(content_length) ==
    IF content_length # NaN THEN <<content_length>> ELSE <<>>

ContentLength ==
    /\ pc = "content_length"
    /\ UNCHANGED <<pipeline, db, pw, raised>>
    /\ dl' = [dl EXCEPT !.expected_size = ExpectedSize(dl.content_length)]
    /\ pc' = "tqdm"

\* lines 57-62: tqdm(total=expected_size) reads the local
ProgressBar ==
    /\ pc = "tqdm"
    /\ UNCHANGED <<pipeline, db, pw>>
    /\ IF dl.expected_size # <<>>
       THEN /\ pc' = "open"
            /\ UNCHANGED <<dl, raised>>
       ELSE /\ DownloadRaises("UnboundLocalError")
            /\ UNCHANGED dl

\* line 65: open(file_path, "wb") makes the file, or empties it
OpenOutFile ==
    /\ pc = "open"
    /\ UNCHANGED <<pipeline, db, pw>>
    /\ IF dl.writable
       THEN /\ pc' = "read"
            /\ dl' = [dl EXCEPT !.folder = (dl.filename :> <<>>) @@ dl.folder]
            /\ UNCHANGED raised
       ELSE /\ DownloadRaises("OSError")
            /\ UNCHANGED dl

\* lines 66-71: one turn of the loop
ReadChunk ==
    /\ pc = "read"
    /\ UNCHANGED <<pipeline, db, pw>>
    /\ IF dl.read_fails = dl.read + 1
       THEN /\ DownloadRaises("IncompleteRead")
            /\ UNCHANGED dl
       ELSE /\ UNCHANGED raised
            /\ IF dl.read = Len(dl.body)
               THEN /\ pc' = "gz"
                    /\ UNCHANGED dl
               ELSE /\ pc' = "read"
                    /\ dl' = [dl EXCEPT
                                !.read = dl.read + 1,
                                !.folder[dl.filename] =
                                    Append(dl.folder[dl.filename],
                                           dl.body[dl.read + 1])]

\* lines 79-87: open(decompressed_path, "wb") makes the file before gzip
\* reads the first byte
Decompress ==
    /\ pc = "gz"
    /\ UNCHANGED <<pipeline, db, pw>>
    /\ IF ~EndsWithGz(dl.file_path)
       THEN /\ pc' = "return"
            /\ UNCHANGED <<dl, raised>>
       ELSE IF IsGzipStream(dl.folder[dl.file_path])
       THEN /\ pc' = "return"
            /\ dl' = [dl EXCEPT
                        !.folder = (WithoutGz(dl.file_path) :>
                                        Gunzip(dl.folder[dl.file_path]))
                                   @@ dl.folder,
                        !.file_path = WithoutGz(dl.file_path)]
            /\ UNCHANGED raised
       ELSE /\ DownloadRaises("BadGzipFile")
            /\ dl' = [dl EXCEPT
                        !.folder = (WithoutGz(dl.file_path) :> <<>>)
                                   @@ dl.folder]

\* line 93
ReturnPath ==
    /\ pc = "return"
    /\ UNCHANGED <<pipeline, db, pw, raised>>
    /\ dl' = [dl EXCEPT !.returned = dl.file_path]
    /\ pc' = "done"

\* download_file_from_url on any response
InitDownload ==
    /\ pc = "file_path"
    /\ raw_dir = NoDir
    /\ cleaned_dir = NoFile
    /\ completed = <<>>
    /\ radiation_raw = <<>>
    /\ weather_raw = <<>>
    /\ mun_raw = <<>>
    /\ mun_df = <<>>
    /\ radiation_df = <<>>
    /\ weather_df = <<>>
    /\ radiation_geo = <<>>
    /\ final_df = <<>>
    /\ geo_report = NoReport
    /\ raised = ""
    /\ dl \in UNION {WithHeader(d) :
                        d \in {x \in Downloads :
                                  x.read_fails <= Len(x.body) + 1}}
    /\ db = NoDb
    /\ pw = NoGet

NextDownload ==
    \/ FilePath
    \/ UrlOpen
    \/ ContentLength
    \/ ProgressBar
    \/ OpenOutFile
    \/ ReadChunk
    \/ Decompress
    \/ ReturnPath

SpecDownload == InitDownload /\ [][NextDownload]_vars

\* the download itself fails, or a file cannot be written
DownloadFails(d) ==
    \/ ~d.url_ok
    \/ d.read_fails # 0
    \/ ~d.writable
    \/ EndsWithGz(d.filename) /\ ~IsGzipStream(d.body)

\* C28: for every successful response, with or without a Content-Length
\* header, download_file_from_url writes the whole body to
\* dest_folder/filename and returns the path (of the decompressed file when
\* the name ends in .gz); it raises only when the download itself fails or
\* the file cannot be written.
C28_EveryResponseIsWritten ==
    /\ raised # "" => DownloadFails(dl)
    /\ pc = "done" =>
          /\ dl.filename \in DOMAIN dl.folder
          /\ dl.folder[dl.filename] = dl.body
          /\ dl.returned = IF EndsWithGz(dl.filename)
                           THEN WithoutGz(dl.filename) ELSE dl.filename
          /\ dl.returned \in DOMAIN dl.folder

----------------------------------------------------------------------------
(* concatenate_radiation_tables_in_db of src/src/utils/db_utils.py *)

\* calls of concatenate_radiation_tables_in_db on one database
MaxDbRuns == 2

\* table names, split at the underscores
RadiationTablePrefix == <<"radiation", "data">>
RadiationConcatenatedTableName == <<"radiation", "data", "concatenated">>
WeatherTableName == <<"weather", "data">>
MunicipalityTableName == <<"municipality", "data">>

\* get_data.py line 173: the table of one medium and period
RadiationTableNames ==
    {RadiationTablePrefix \o <<"soil", "01012020", "01012025">>,
     RadiationTablePrefix \o <<"water", "01012020", "01012021">>}

\* lines 141-144: name LIKE 'radiation_data_%', the prefix, one more
\* character and anything after it
Like(name, table_prefix) ==
    /\ Len(name) > Len(table_prefix)
    /\ SubSeq(name, 1, Len(table_prefix)) = table_prefix

\* lines 160-161: the first token after the prefix
DbMediumName(name, table_prefix) == name[Len(table_prefix) + 1]

\* lines 164-167
DbMediumOf(name, table_prefix) ==
    LET medium_name == DbMediumName(name, table_prefix)
    IN  IF medium_name \in DOMAIN MediumMapping
        THEN MediumMapping[medium_name] ELSE medium_name

\* lines 156-167: the rows of one table with the medium column
DbTagged(name, rows, table_prefix) ==
    [i \in 1..Len(rows) |->
        [rows[i] EXCEPT !.Milieu = DbMediumOf(name, table_prefix)]]

\* lines 153-172: the tables in the order the SELECT returned them
RECURSIVE DbConcat(_, _, _)
DbConcat(names, tables, table_prefix) ==
    IF names = <<>> THEN <<>>
    ELSE DbTagged(Head(names), tables[Head(names)], table_prefix)
         \o DbConcat(Tail(names), tables, table_prefix)

\* the orders in which the SELECT can return a set of names
Orders(names) ==
    {o \in [1..Cardinality(names) -> names] :
        \A i, j \in 1..Cardinality(names) : i # j => o[i] # o[j]}

\* the databases get_all_data can leave: a table is absent or has rows
DbRows == {<<>>, <<FileRow(<<"a">>, 5)>>,
           <<FileRow(<<"a">>, 5), FileRow(<<"b">>, 7)>>}

Databases ==
    UNION {[names -> DbRows] :
              names \in SUBSET (RadiationTableNames \cup
                                {WeatherTableName, MunicipalityTableName})}

\* lines 136-186; save_dataframe_to_sqlite replaces the output table
\* (if_exists='replace')
ConcatenateRadiationTablesInDb ==
    /\ pc = "db"
    /\ db.runs < MaxDbRuns
    /\ UNCHANGED <<pipeline, dl, pw, pc, raised>>
    /\ \E tables \in Orders({n \in DOMAIN db.tables :
                                Like(n, RadiationTablePrefix)}) :
          db' = [runs |-> db.runs + 1,
                 selected |-> tables,
                 tables |->
                    IF tables = <<>> THEN db.tables
                    ELSE (RadiationConcatenatedTableName :>
                            DbConcat(tables, db.tables, RadiationTablePrefix))
                         @@ db.tables]

\* concatenate_radiation_tables_in_db, called again and again
InitDb ==
    /\ pc = "db"
    /\ raw_dir = NoDir
    /\ cleaned_dir = NoFile
    /\ completed = <<>>
    /\ radiation_raw = <<>>
    /\ weather_raw = <<>>
    /\ mun_raw = <<>>
    /\ mun_df = <<>>
    /\ radiation_df = <<>>
    /\ weather_df = <<>>
    /\ radiation_geo = <<>>
    /\ final_df = <<>>
    /\ geo_report = NoReport
    /\ raised = ""
    /\ dl = NoDownload
    /\ db \in {[runs |-> 0, selected |-> <<>>, tables |-> t] : t \in Databases}
    /\ pw = NoGet

NextDb == ConcatenateRadiationTablesInDb

SpecDb == InitDb /\ [][NextDb]_vars

\* the rows of a table, each with the number of times it occurs
RowCounts(rows) ==
    [r \in {rows[i] : i \in 1..Len(rows)} |->
        Cardinality({i \in 1..Len(rows) : rows[i] = r})]

\* the rows of the output table, none when it does not exist
OutputRows(d) ==
    IF RadiationConcatenatedTableName \in DOMAIN d.tables
    THEN RowCounts(d.tables[RadiationConcatenatedTableName])
    ELSE RowCounts(<<>>)

\* C29: under the configured names the output table is never among the
\* tables selected as inputs, and a call that follows another call leaves
\* the output table with the same rows.
C29_Idempotent ==
    [][(pc = "db" /\ db'.runs = db.runs + 1) =>
          /\ \A i \in 1..Len(db'.selected) :
                db'.selected[i] # RadiationConcatenatedTableName
          /\ db.runs >= 1 => OutputRows(db') = OutputRows(db)]_vars

----------------------------------------------------------------------------
(* get_radiation_data of src/src/utils/get_data.py *)

\* config.py line 16
UseOfADatabase == FALSE

\* the (medium, period) pairs of RADIATION_DATA_CONFIG, in the order of the
\* two loops of lines 146-151
RadiationPairs ==
    LET pair(m, s, e) ==
            [medium |-> m, tag |-> MediumMapping[m], start |-> s, end |-> e]
    IN  <<pair("soil", "01-janvier-2020", "01-janvier-2025"),
          pair("water", "01-janvier-2020", "01-janvier-2021"),
          pair("water", "01-janvier-2021", "01-janvier-2022"),
          pair("water", "01-janvier-2022", "01-janvier-2023"),
          pair("water", "01-janvier-2023", "01-janvier-2024"),
          pair("water", "01-janvier-2024", "01-janvier-2025")>>

\* what a call into the browser does: it returns, it times out
\* (PlaywrightTimeoutError), or it fails with another playwright Error, as
\* when the page or the browser has closed
BrowserOutcomes == {"ok", "TimeoutError", "Error"}

\* _extract_zip, lines 193-214 of playwright_utils.py
ZipOutcomes == {"ok", "FileNotFoundError", "ValueError"}

\* the browser of get_radiation_data before line 136
Browsers == [pair : {0}, files : {{}}, failed : {{}}, attempted : {<<>>}]

\* playwright_utils.py lines 41-56: both except clauses print and return
SafePlaywrightAction(outcome) ==
    IF outcome = "ok" THEN pw.failed ELSE pw.failed \cup {pw.pair}

\* a step that is one call of _safe_playwright_action
SafeStep(step, next) ==
    /\ pc = step
    /\ UNCHANGED <<pipeline, dl, db, raised>>
    /\ \E outcome \in BrowserOutcomes :
          pw' = [pw EXCEPT !.failed = SafePlaywrightAction(outcome)]
    /\ pc' = next

\* line 136: install_playwright_browsers ends the process when the
\* installation fails (playwright_utils.py lines 36-38)
InstallPlaywrightBrowsers ==
    /\ pc = "install_playwright_browsers"
    /\ UNCHANGED <<pipeline, acquisition>>
    /\ \E installed \in BOOLEAN :
          IF installed
          THEN pc' = "goto" /\ UNCHANGED raised
          ELSE pc' = "raised" /\ raised' = "SystemExit"

\* lines 138-141: launch, new_page and goto are called directly
OpenPage ==
    /\ pc = "goto"
    /\ UNCHANGED <<pipeline, acquisition>>
    /\ \E outcome \in BrowserOutcomes :
          IF outcome = "ok"
          THEN pc' = "close_modal" /\ UNCHANGED raised
          ELSE pc' = "raised" /\ raised' = outcome

\* line 144
CloseModal == SafeStep("close_modal", "for")

\* lines 146-151: the next pair of the two loops, or line 182 after the last
ForPair ==
    /\ pc = "for"
    /\ UNCHANGED <<pipeline, dl, db, raised>>
    /\ IF pw.pair < Len(RadiationPairs)
       THEN /\ pw' = [pw EXCEPT !.pair = pw.pair + 1,
                                !.attempted = Append(pw.attempted, pw.pair + 1)]
            /\ pc' = "select_collection_environment"
       ELSE /\ pc' = "close"
            /\ UNCHANGED pw

\* line 154
SelectCollectionEnvironment ==
    SafeStep("select_collection_environment", "fill_start_date")

\* line 155
FillStartDate == SafeStep("fill_start_date", "fill_end_date")

\* line 156
FillEndDate == SafeStep("fill_end_date", "refuse_cookies")

\* line 157; playwright_utils.py lines 83-103 and 330-346:
\* _check_if_element_visible calls wait_for_selector outside
\* _safe_playwright_action and catches PlaywrightTimeoutError only
RefuseCookies ==
    /\ pc = "refuse_cookies"
    /\ UNCHANGED <<pipeline, dl, db>>
    /\ \E visible \in BrowserOutcomes, click \in BrowserOutcomes :
          IF visible = "ok"
          THEN /\ pw' = [pw EXCEPT !.failed = SafePlaywrightAction(click)]
               /\ pc' = "click_show_results"
               /\ UNCHANGED raised
          ELSE IF visible = "TimeoutError"
          THEN /\ pc' = "click_show_results"
               /\ UNCHANGED <<pw, raised>>
          ELSE /\ pc' = "raised"
               /\ raised' = visible
               /\ UNCHANGED pw

\* line 158
ClickShowResults == SafeStep("click_show_results", "click_download_tab")

\* line 159
ClickDownloadTab == SafeStep("click_download_tab", "download")

\* lines 162-165; playwright_utils.py lines 217-252: the CSV file of the
\* pair is in the raw directory when the download and the extraction succeed
StartDownloadingDataPlaywright ==
    /\ pc = "download"
    /\ UNCHANGED <<pipeline, dl, db, raised>>
    /\ \E download \in BrowserOutcomes, zip \in ZipOutcomes :
          IF download = "ok" /\ zip = "ok"
          THEN pw' = [pw EXCEPT !.files = pw.files \cup {pw.pair}]
          ELSE pw' = [pw EXCEPT !.failed = pw.failed \cup {pw.pair}]
    /\ pc' = "save_csv_to_sqlite"

\* lines 167-179: read_csv of the file of the pair, when the database is used
SaveCsvToSqlite ==
    /\ pc = "save_csv_to_sqlite"
    /\ UNCHANGED <<pipeline, acquisition>>
    /\ IF UseOfADatabase /\ pw.pair \notin pw.files
       THEN pc' = "raised" /\ raised' = "FileNotFoundError"
       ELSE pc' = "for" /\ UNCHANGED raised

\* line 182
CloseBrowser ==
    /\ pc = "close"
    /\ UNCHANGED <<pipeline, acquisition, raised>>
    /\ pc' = "done"

\* get_radiation_data against any behaviour of the site
InitGet ==
    /\ pc = "install_playwright_browsers"
    /\ raw_dir = NoDir
    /\ cleaned_dir = NoFile
    /\ completed = <<>>
    /\ radiation_raw = <<>>
    /\ weather_raw = <<>>
    /\ mun_raw = <<>>
    /\ mun_df = <<>>
    /\ radiation_df = <<>>
    /\ weather_df = <<>>
    /\ radiation_geo = <<>>
    /\ final_df = <<>>
    /\ geo_report = NoReport
    /\ raised = ""
    /\ dl = NoDownload
    /\ db = NoDb
    /\ pw \in Browsers

NextGet ==
    \/ InstallPlaywrightBrowsers
    \/ OpenPage
    \/ CloseModal
    \/ ForPair
    \/ SelectCollectionEnvironment
    \/ FillStartDate
    \/ FillEndDate
    \/ RefuseCookies
    \/ ClickShowResults
    \/ ClickDownloadTab
    \/ StartDownloadingDataPlaywright
    \/ SaveCsvToSqlite
    \/ CloseBrowser

SpecGet == InitGet /\ [][NextGet]_vars

\* C30: once get_radiation_data works on the pairs, no failure of a browser
\* step reaches the caller: every pair is attempted in configured order and
\* the function returns normally.
C30_NoStepFailurePropagates ==
    /\ pw.pair >= 1 => raised = ""
    /\ pc = "done" =>
          pw.attempted = [i \in 1..Len(RadiationPairs) |-> i]
====
